---- MODULE Spec2Model ----
(***************************************************************************)
(* Todo controller of the To-Do backend (controllers/todoController.js and *)
(* the todo routes with their express-validator chains).                   *)
(*                                                                         *)
(* The todo collection is the variable store.  A handler runs up to its    *)
(* first store access without yielding, so a request that is answered at   *)
(* its first store access (400, 404, 403, getTodoById's 200, createTodo's  *)
(* 201) is one step.  A handler that awaits a second store access          *)
(* (updateTodo, deleteTodo, toggleTodo, getTodos) sits in inflight between *)
(* the two, and other handlers' store accesses may take place there.       *)
(*                                                                         *)
(* Optional values (a body field, a query parameter, an optional path of   *)
(* the document) are sequences of length at most one: <<>> is undefined,   *)
(* <<v>> is the value v.  Text is a sequence of one-character strings.     *)
(***************************************************************************)
EXTENDS Integers, Sequences, FiniteSets, Bags, TLC

\* ----------------------------------------------------------------- bounds
MaxTodos == 2
MaxFieldTodos == 1
MaxRaceTodos == 1
MaxInFlight == 2
MaxPageTodos == 25

\* ------------------------------------------------------ program constants
TitleMin == 1
TitleMax == 100
DescriptionMax == 500
DefaultPage == 1
DefaultLimit == 10

Users == {"u1", "u2"}
StatusValues == {"pending", "in-progress", "completed"}
PriorityValues == {"low", "medium", "high"}
BooleanStrings == {"true", "false", "1", "0"}
DefaultStatus == "pending"
DefaultPriority == "medium"

VARIABLES store, nextId, inflight, last, toggled

vars == <<store, nextId, inflight, last, toggled>>

\* ----------------------------------------------------------- text helpers
Rep(c, n) == [i \in 1..n |-> c]

Some(v) == <<v>>
None == <<>>
Has(o) == o # <<>>
Get(o) == o[1]

RECURSIVE TrimLeft(_)
TrimLeft(s) == IF s # <<>> /\ Head(s) = " " THEN TrimLeft(Tail(s)) ELSE s

RECURSIVE TrimRight(_)
TrimRight(s) ==
    IF s # <<>> /\ s[Len(s)] = " " THEN TrimRight(SubSeq(s, 1, Len(s) - 1)) ELSE s

Trim(s) == TrimRight(TrimLeft(s))

DigitValue(c) ==
    CASE c = "0" -> 0 [] c = "1" -> 1 [] c = "2" -> 2 [] c = "3" -> 3
      [] c = "4" -> 4 [] c = "5" -> 5 [] c = "6" -> 6 [] c = "7" -> 7
      [] c = "8" -> 8 [] c = "9" -> 9

RECURSIVE ParseInt(_)
ParseInt(s) ==
    IF Len(s) = 1 THEN DigitValue(s[1])
    ELSE 10 * ParseInt(SubSeq(s, 1, Len(s) - 1)) + DigitValue(s[Len(s)])

IsISO8601(s) == s \in {"2024-01-15T00:00:00.000Z", "2024-02-01T00:00:00.000Z"}

CastBoolean(s) == s \in {"true", "1"}

\* ------------------------------------------------- requests and responses
Fields == <<"title", "description", "status", "priority", "dueDate", "isCompleted">>

NoBody ==
    [title |-> None, description |-> None, status |-> None, priority |-> None,
     dueDate |-> None, isCompleted |-> None, user |-> None]

ValidTitle == [NoBody EXCEPT !.title = Some(<<"a">>)]

NoQuery ==
    [status |-> None, priority |-> None, page |-> None, limit |-> None,
     sortBy |-> None, sortOrder |-> None]

Response(op, u, id, code) ==
    [op |-> op, user |-> u, id |-> id, code |-> code, query |-> NoQuery,
     errors |-> <<>>, data |-> <<>>, pagination |-> None]

Handler(op, u, id) ==
    [op |-> op, user |-> u, id |-> id, body |-> NoBody, query |-> NoQuery,
     doc |-> None, data |-> <<>>, prev |-> None]

InFlight == BagCardinality(inflight)

\* ------------------------------------------- express-validator rule chains
\* body('title')[.optional()].trim().isLength({ min: 1, max: 100 })
TitleFails(b, optional) ==
    IF optional /\ ~Has(b.title) THEN FALSE
    ELSE LET v == IF Has(b.title) THEN Trim(Get(b.title)) ELSE <<>>
         IN  ~(Len(v) >= TitleMin /\ Len(v) <= TitleMax)

\* body('description').optional().trim().isLength({ max: 500 })
DescriptionFails(b) ==
    Has(b.description) /\ Len(Trim(Get(b.description))) > DescriptionMax

StatusFails(b) == Has(b.status) /\ Get(b.status) \notin StatusValues

PriorityFails(b) == Has(b.priority) /\ Get(b.priority) \notin PriorityValues

DueDateFails(b) == Has(b.dueDate) /\ ~IsISO8601(Get(b.dueDate))

IsCompletedFails(b) == Has(b.isCompleted) /\ Get(b.isCompleted) \notin BooleanStrings

FieldFails(b, f, titleOptional) ==
    CASE f = "title" -> TitleFails(b, titleOptional)
      [] f = "description" -> DescriptionFails(b)
      [] f = "status" -> StatusFails(b)
      [] f = "priority" -> PriorityFails(b)
      [] f = "dueDate" -> DueDateFails(b)
      [] f = "isCompleted" -> IsCompletedFails(b)

\* validationResult(req).array(): the failing fields, in chain order
ValidationErrors(b, titleOptional) ==
    SelectSeq(Fields, LAMBDA f : FieldFails(b, f, titleOptional))

todoValidation(b) == ValidationErrors(b, FALSE)

updateTodoValidation(b) == ValidationErrors(b, TRUE)

\* the sanitizers of the chains (trim) rewrite req.body
Sanitize(b) ==
    [b EXCEPT !.title = IF Has(@) THEN Some(Trim(Get(@))) ELSE @,
              !.description = IF Has(@) THEN Some(Trim(Get(@))) ELSE @]

\* --------------------------------------------------- the todo collection
IsObjectId(id) == id > 0

\* Todo.findById: a CastError for a malformed id, null for no document
FindById(id) ==
    IF ~IsObjectId(id) THEN [kind |-> "CastError", doc |-> None]
    ELSE IF id \in DOMAIN store THEN [kind |-> "doc", doc |-> Some(store[id])]
    ELSE [kind |-> "null", doc |-> None]

\* Todo.create({ title, description, status, priority, dueDate, user })
NewTodo(id, u, b) ==
    [_id |-> id,
     title |-> Get(b.title),
     description |-> b.description,
     status |-> IF Has(b.status) THEN Get(b.status) ELSE DefaultStatus,
     priority |-> IF Has(b.priority) THEN Get(b.priority) ELSE DefaultPriority,
     dueDate |-> b.dueDate,
     isCompleted |-> FALSE,
     user |-> u]

ApplyUpdateWithUser(doc, b) ==
    [doc EXCEPT !.title = IF Has(b.title) THEN Get(b.title) ELSE @,
                !.description = IF Has(b.description) THEN b.description ELSE @,
                !.status = IF Has(b.status) THEN Get(b.status) ELSE @,
                !.priority = IF Has(b.priority) THEN Get(b.priority) ELSE @,
                !.dueDate = IF Has(b.dueDate) THEN b.dueDate ELSE @,
                !.isCompleted =
                    IF Has(b.isCompleted) THEN CastBoolean(Get(b.isCompleted)) ELSE @,
                !.user = IF Has(b.user) THEN Get(b.user) ELSE @]

ApplyUpdateUndefinedAsNull(doc, b) ==
    [doc EXCEPT !.title = IF Has(b.title) THEN Get(b.title) ELSE @,
                !.description = b.description,
                !.status = IF Has(b.status) THEN Get(b.status) ELSE @,
                !.priority = IF Has(b.priority) THEN Get(b.priority) ELSE @,
                !.dueDate = b.dueDate,
                !.isCompleted =
                    IF Has(b.isCompleted) THEN CastBoolean(Get(b.isCompleted)) ELSE @]

\* the update document of findByIdAndUpdate: title, description, status,
\* priority, dueDate, isCompleted of req.body; undefined keys are dropped
ApplyUpdate(doc, b) ==
    [doc EXCEPT !.title = IF Has(b.title) THEN Get(b.title) ELSE @,
                !.description = IF Has(b.description) THEN b.description ELSE @,
                !.status = IF Has(b.status) THEN Get(b.status) ELSE @,
                !.priority = IF Has(b.priority) THEN Get(b.priority) ELSE @,
                !.dueDate = IF Has(b.dueDate) THEN b.dueDate ELSE @,
                !.isCompleted =
                    IF Has(b.isCompleted) THEN CastBoolean(Get(b.isCompleted)) ELSE @]

ToggleDocKeepsInProgress(doc) ==
    [doc EXCEPT !.isCompleted = ~doc.isCompleted,
                !.status = IF doc.status = "in-progress" THEN @
                           ELSE IF ~doc.isCompleted THEN "completed" ELSE "pending"]

ToggleDocNeverPending(doc) ==
    [doc EXCEPT !.isCompleted = ~doc.isCompleted,
                !.status = IF ~doc.isCompleted THEN "completed" ELSE @]

\* todo.isCompleted = !todo.isCompleted; todo.status = ... ? 'completed' : 'pending'
ToggleDoc(doc) ==
    [doc EXCEPT !.isCompleted = ~doc.isCompleted,
                !.status = IF ~doc.isCompleted THEN "completed" ELSE "pending"]

\* the paths save() sends: those whose value differs from the one loaded
ModifiedPaths(loaded, local) ==
    {f \in {"isCompleted", "status"} : loaded[f] # local[f]}

SaveModified(stored, local, paths) ==
    [f \in DOMAIN stored |-> IF f \in paths THEN local[f] ELSE stored[f]]

Remove(s, id) == [i \in DOMAIN s \ {id} |-> s[i]]

\* -------------------------------------------------------------- getTodos
\* if (status) filter.status = status: an empty parameter sets no filter
Truthy(o) == Has(o) /\ Get(o) # ""

MatchesAnyUser(u, q) ==
    {id \in DOMAIN store :
        /\ Truthy(q.status) => store[id].status = Get(q.status)
        /\ Truthy(q.priority) => store[id].priority = Get(q.priority)}

\* Todo.find(filter) / Todo.countDocuments(filter), filter.user = req.user._id
Matches(u, q) ==
    {id \in DOMAIN store :
        /\ store[id].user = u
        /\ Truthy(q.status) => store[id].status = Get(q.status)
        /\ Truthy(q.priority) => store[id].priority = Get(q.priority)}

\* createdAt grows with the creation order, which is the order of the ids;
\* strings compare by code unit, so "high" < "low" < "medium"
SortKey(doc, by) ==
    CASE by = "createdAt" -> doc._id
      [] by = "priority" ->
            (CASE doc.priority = "high" -> 1 [] doc.priority = "low" -> 2
               [] doc.priority = "medium" -> 3)
      [] by = "isCompleted" -> (IF doc.isCompleted THEN 1 ELSE 0)
      [] OTHER -> 0

\* sort[sortBy] = sortOrder === 'desc' ? -1 : 1; equal keys keep natural order
Before(a, b, by, dir) ==
    LET ka == SortKey(store[a], by)
        kb == SortKey(store[b], by)
    IN  IF ka # kb THEN (IF dir = -1 THEN ka > kb ELSE ka < kb) ELSE a < b

\* the place of x in a sorted sequence: after the elements that go before it
Insert(seq, x, by, dir) ==
    LET k == Cardinality({j \in 1..Len(seq) : Before(seq[j], x, by, dir)})
    IN  SubSeq(seq, 1, k) \o <<x>> \o SubSeq(seq, k + 1, Len(seq))

RECURSIVE SortUpTo(_, _, _, _)
SortUpTo(n, S, by, dir) ==
    IF n = 0 THEN <<>>
    ELSE LET rest == SortUpTo(n - 1, S, by, dir)
         IN  IF n \in S THEN Insert(rest, n, by, dir) ELSE rest

\* .sort(sort) over the documents of S
SortIds(S, by, dir) == SortUpTo(nextId - 1, S, by, dir)

QueryPage(q) == IF Has(q.page) THEN ParseInt(Get(q.page)) ELSE DefaultPage

QueryLimit(q) == IF Has(q.limit) THEN ParseInt(Get(q.limit)) ELSE DefaultLimit

QuerySortBy(q) == IF Has(q.sortBy) THEN Get(q.sortBy) ELSE "createdAt"

QuerySortDir(q) ==
    IF (IF Has(q.sortOrder) THEN Get(q.sortOrder) ELSE "desc") = "desc" THEN -1 ELSE 1

SortedMatches(u, q) == SortIds(Matches(u, q), QuerySortBy(q), QuerySortDir(q))

Min(a, b) == IF a < b THEN a ELSE b

\* .skip(skip).limit(limit)
SkipLimit(ids, skip, limit) == SubSeq(ids, skip + 1, Min(skip + limit, Len(ids)))

\* Math.ceil(total / limit)
CeilDiv(total, limit) == (total + limit - 1) \div limit


\* the pagination object of the response
Pagination(u, q) ==
    LET total == Cardinality(Matches(u, q))
    IN  [currentPage |-> QueryPage(q),
         totalPages |-> CeilDiv(total, QueryLimit(q)),
         totalItems |-> total,
         itemsPerPage |-> QueryLimit(q)]

FindPageSkipsPage(u, q) ==
    LET skip == QueryPage(q) * QueryLimit(q)
        ids == SkipLimit(SortedMatches(u, q), skip, QueryLimit(q))
    IN  [i \in 1..Len(ids) |-> store[ids[i]]]

\* Todo.find(filter).sort(sort).skip(skip).limit(limit)
FindPage(u, q) ==
    LET skip == (QueryPage(q) - 1) * QueryLimit(q)
        ids == SkipLimit(SortedMatches(u, q), skip, QueryLimit(q))
    IN  [i \in 1..Len(ids) |-> store[ids[i]]]

\* Todo.find(filter)..., Todo.countDocuments(filter) and the response
getTodos(u, q) ==
    /\ last' = [Response("list", u, 0, 200)
                   EXCEPT !.query = q,
                          !.data = FindPage(u, q),
                          !.pagination = Some(Pagination(u, q))]
    /\ UNCHANGED <<store, nextId, inflight, toggled>>

\* ------------------------------------------------------------ createTodo
createTodo(u, b, maxId) ==
    LET errs == todoValidation(b)
        sb == Sanitize(b)
    IN  IF errs # <<>>
        THEN /\ last' = [Response("create", u, 0, 400) EXCEPT !.errors = errs]
             /\ UNCHANGED <<store, nextId, inflight, toggled>>
        ELSE /\ nextId <= maxId
             /\ store' = store @@ (nextId :> NewTodo(nextId, u, sb))
             /\ toggled' = toggled @@ (nextId :> None)
             /\ nextId' = nextId + 1
             /\ last' = [Response("create", u, nextId, 201)
                            EXCEPT !.data = <<NewTodo(nextId, u, sb)>>]
             /\ UNCHANGED inflight

\* ------------------------------------- the checks before a handler's effect
\* findById, if (!todo) 404, the ownership comparison 403, a CastError 404;
\* code 0 stands for: no early return
ChecksWithoutOwnership(op, u, id) ==
    LET found == FindById(id)
    IN  IF found.kind = "CastError" THEN Response(op, u, id, 404)
        ELSE IF found.kind = "null" THEN Response(op, u, id, 404)
        ELSE Response(op, u, id, 0)

ChecksCastErrorUnmapped(op, u, id) ==
    LET found == FindById(id)
    IN  IF found.kind = "CastError" THEN Response(op, u, id, 500)
        ELSE IF found.kind = "null" THEN Response(op, u, id, 404)
        ELSE IF Get(found.doc).user # u THEN Response(op, u, id, 403)
        ELSE Response(op, u, id, 0)

Checks(op, u, id) ==
    LET found == FindById(id)
    IN  IF found.kind = "CastError" THEN Response(op, u, id, 404)
        ELSE IF found.kind = "null" THEN Response(op, u, id, 404)
        ELSE IF Get(found.doc).user # u THEN Response(op, u, id, 403)
        ELSE Response(op, u, id, 0)

updateTodoChecksStoreFirst(u, id, b) ==
    LET errs == updateTodoValidation(b)
        c == Checks("update", u, id)
    IN  IF c.code # 0 THEN c
        ELSE IF errs # <<>>
        THEN [Response("update", u, id, 400) EXCEPT !.errors = errs]
        ELSE c

\* updateTodo returns the validation errors before it reads the store
updateTodoChecks(u, id, b) ==
    LET errs == updateTodoValidation(b)
    IN  IF errs # <<>>
        THEN [Response("update", u, id, 400) EXCEPT !.errors = errs]
        ELSE Checks("update", u, id)

\* ----------------------------------------------------------- getTodoById
getTodoById(u, id) ==
    /\ LET c == Checks("get", u, id)
       IN  last' = IF c.code # 0 THEN c
                   ELSE [Response("get", u, id, 200) EXCEPT !.data = <<store[id]>>]
    /\ UNCHANGED <<store, nextId, inflight, toggled>>

\* ------------------------------------------------------------ updateTodo
updateTodoEffectUpsert(u, id, b) ==
    IF id \in DOMAIN store
    THEN /\ store' = [store EXCEPT ![id] = ApplyUpdate(@, b)]
         /\ toggled' = [toggled EXCEPT ![id] = None]
         /\ last' = [Response("update", u, id, 200)
                        EXCEPT !.data = <<ApplyUpdate(store[id], b)>>]
    ELSE /\ store' = store @@ (id :> ApplyUpdate(NewTodo(id, u, ValidTitle), b))
         /\ toggled' = toggled @@ (id :> None)
         /\ last' = [Response("update", u, id, 200)
                        EXCEPT !.data = <<ApplyUpdate(NewTodo(id, u, ValidTitle), b)>>]

\* findByIdAndUpdate(id, { ... }, { new: true }) and the response; the result
\* is null when the document is gone
updateTodoEffect(u, id, b) ==
    IF id \in DOMAIN store
    THEN /\ store' = [store EXCEPT ![id] = ApplyUpdate(@, b)]
         /\ toggled' = [toggled EXCEPT ![id] = None]
         /\ last' = [Response("update", u, id, 200)
                        EXCEPT !.data = <<ApplyUpdate(store[id], b)>>]
    ELSE /\ last' = Response("update", u, id, 200)
         /\ UNCHANGED <<store, toggled>>

updateTodo(u, id, b) ==
    /\ LET c == updateTodoChecks(u, id, b)
       IN  IF c.code # 0
           THEN last' = c /\ UNCHANGED <<store, toggled>>
           ELSE updateTodoEffect(u, id, Sanitize(b))
    /\ UNCHANGED <<nextId, inflight>>

updateTodoFind(u, id, b, cap) ==
    /\ InFlight < cap
    /\ LET c == updateTodoChecks(u, id, b)
       IN  IF c.code # 0
           THEN last' = c /\ UNCHANGED inflight
           ELSE /\ inflight' = inflight (+) SetToBag(
                       {[Handler("update", u, id) EXCEPT !.body = Sanitize(b)]})
                /\ UNCHANGED last
    /\ UNCHANGED <<store, nextId, toggled>>

updateTodoWrite(r) ==
    /\ BagIn(r, inflight) /\ r.op = "update"
    /\ inflight' = inflight (-) SetToBag({r})
    /\ updateTodoEffect(r.user, r.id, r.body)
    /\ UNCHANGED nextId

\* ------------------------------------------------------------ deleteTodo
\* findByIdAndDelete(id) and the response
deleteTodoEffect(u, id) ==
    /\ store' = Remove(store, id)
    /\ toggled' = Remove(toggled, id)
    /\ last' = Response("delete", u, id, 200)

deleteTodo(u, id) ==
    /\ LET c == Checks("delete", u, id)
       IN  IF c.code # 0
           THEN last' = c /\ UNCHANGED <<store, toggled>>
           ELSE deleteTodoEffect(u, id)
    /\ UNCHANGED <<nextId, inflight>>

deleteTodoFind(u, id, cap) ==
    /\ InFlight < cap
    /\ LET c == Checks("delete", u, id)
       IN  IF c.code # 0
           THEN last' = c /\ UNCHANGED inflight
           ELSE /\ inflight' = inflight (+) SetToBag({Handler("delete", u, id)})
                /\ UNCHANGED last
    /\ UNCHANGED <<store, nextId, toggled>>

deleteTodoWrite(r) ==
    /\ BagIn(r, inflight) /\ r.op = "delete"
    /\ inflight' = inflight (-) SetToBag({r})
    /\ deleteTodoEffect(r.user, r.id)
    /\ UNCHANGED nextId

\* ------------------------------------------------------------ toggleTodo
\* the two assignments on the loaded document, todo.save() and the response.
\* save() sends the modified paths; for a document that is gone it rejects
\* with DocumentNotFoundError, which has no kind: the catch answers 500.
\* toggled is the history of the todo: the isCompleted values that the latest
\* toggles in a row replaced, the last two of them.  A toggle is in the row
\* when it read the todo after the toggle before it had saved (prev is the
\* history at its read), no other handler was between its read and its
\* write of this todo, and nothing else wrote the todo since.
toggleTodoEffectVersioned(u, id, loaded, prev, alone) ==
    LET local == ToggleDoc(loaded)
    IN  IF id \in DOMAIN store /\ store[id] = loaded
        THEN /\ store' = [store EXCEPT ![id] =
                             SaveModified(@, local, ModifiedPaths(loaded, local))]
             /\ toggled' = [toggled EXCEPT ![id] = None]
             /\ last' = [Response("toggle", u, id, 200) EXCEPT !.data = <<local>>]
        ELSE /\ last' = Response("toggle", u, id, 500)
             /\ UNCHANGED <<store, toggled>>

toggleTodoEffect(u, id, loaded, prev, alone) ==
    LET local == ToggleDoc(loaded)
    IN  IF id \in DOMAIN store
        THEN /\ store' = [store EXCEPT ![id] =
                             SaveModified(@, local, ModifiedPaths(loaded, local))]
             /\ toggled' = [toggled EXCEPT ![id] =
                               IF alone /\ prev = toggled[id]
                                  /\ loaded.isCompleted = store[id].isCompleted
                               THEN (IF Has(prev)
                                     THEN <<prev[Len(prev)], loaded.isCompleted>>
                                     ELSE <<loaded.isCompleted>>)
                               ELSE None]
             /\ last' = [Response("toggle", u, id, 200) EXCEPT !.data = <<local>>]
        ELSE /\ last' = Response("toggle", u, id, 500)
             /\ UNCHANGED <<store, toggled>>

toggleTodo(u, id) ==
    /\ LET c == Checks("toggle", u, id)
       IN  IF c.code # 0
           THEN last' = c /\ UNCHANGED <<store, toggled>>
           ELSE toggleTodoEffect(u, id, store[id], toggled[id], TRUE)
    /\ UNCHANGED <<nextId, inflight>>

toggleTodoFind(u, id, cap) ==
    /\ InFlight < cap
    /\ LET c == Checks("toggle", u, id)
       IN  IF c.code # 0
           THEN last' = c /\ UNCHANGED inflight
           ELSE /\ inflight' = inflight (+) SetToBag(
                       {[Handler("toggle", u, id)
                           EXCEPT !.doc = Some(store[id]), !.prev = toggled[id]]})
                /\ UNCHANGED last
    /\ UNCHANGED <<store, nextId, toggled>>

OthersInFlight(r) ==
    \E o \in BagToSet(inflight (-) SetToBag({r})) :
        o.id = r.id /\ o.op \in {"update", "delete", "toggle"}

toggleTodoSave(r) ==
    /\ BagIn(r, inflight) /\ r.op = "toggle"
    /\ inflight' = inflight (-) SetToBag({r})
    /\ toggleTodoEffect(r.user, r.id, Get(r.doc), r.prev, ~OthersInFlight(r))
    /\ UNCHANGED nextId

Init ==
    /\ store = <<>>
    /\ toggled = <<>>
    /\ nextId = 1
    /\ inflight = EmptyBag
    /\ last = Response("none", "u1", 0, 0)

\* ------------------------------------------- requests handled one at a time
\* an id of 0 is a malformed id; an id above nextId - 1 is well formed and
\* names no document
RequestIds == 0..MaxTodos

CreateBodies ==
    {[NoBody EXCEPT !.title = Some(<<" ", "b">>), !.isCompleted = Some("true"),
                    !.user = Some("u2")],
     NoBody}

UpdateBodies ==
    {[NoBody EXCEPT !.status = Some("in-progress")],
     [NoBody EXCEPT !.status = Some("completed"), !.user = Some("u2")],
     [NoBody EXCEPT !.isCompleted = Some("true")],
     [NoBody EXCEPT !.status = Some("done")]}

Next ==
    \/ \E b \in CreateBodies : createTodo("u1", b, MaxTodos)
    \/ \E u \in Users, id \in RequestIds : getTodoById(u, id)
    \/ \E u \in Users, id \in RequestIds, b \in UpdateBodies : updateTodo(u, id, b)
    \/ \E u \in Users, id \in RequestIds : deleteTodo(u, id)
    \/ \E u \in Users, id \in RequestIds : toggleTodo(u, id)

Spec == Init /\ [][Next]_vars

\* --------------------------------------------------- the list of todos
ListCreateBodies ==
    {[NoBody EXCEPT !.title = Some(<<"a">>)],
     [NoBody EXCEPT !.title = Some(<<"b">>), !.status = Some("completed"),
                    !.priority = Some("high")]}

ListUpdateBodies ==
    {[NoBody EXCEPT !.status = Some("completed")],
     [NoBody EXCEPT !.priority = Some("high")]}

Queries ==
    {NoQuery,
     [NoQuery EXCEPT !.status = Some("completed")],
     [NoQuery EXCEPT !.priority = Some("high")],
     [NoQuery EXCEPT !.status = Some("completed"), !.priority = Some("medium"),
                     !.sortOrder = Some("asc")],
     [NoQuery EXCEPT !.status = Some(""), !.priority = Some("low")],
     [NoQuery EXCEPT !.page = Some(<<"2">>), !.limit = Some(<<"1">>),
                     !.sortBy = Some("priority"), !.sortOrder = Some("asc")]}

NextList ==
    \/ \E u \in Users, b \in ListCreateBodies : createTodo(u, b, MaxTodos)
    \/ \E u \in Users, id \in 1..MaxTodos, b \in ListUpdateBodies : updateTodo(u, id, b)
    \/ \E u \in Users, id \in 1..MaxTodos : deleteTodo(u, id)
    \/ \E u \in Users, q \in Queries : getTodos(u, q)

SpecList == Init /\ [][NextList]_vars

\* ---------------------------------------------------------- pagination
PageParams == {None, Some(<<"1">>), Some(<<"2">>), Some(<<"3">>), Some(<<"4">>)}

LimitParams == {None, Some(<<"1">>), Some(<<"7">>), Some(<<"1", "0">>)}

PageQueries ==
    {[NoQuery EXCEPT !.page = p, !.limit = l, !.status = s] :
        p \in PageParams, l \in LimitParams, s \in {None, Some("pending")}}
    \cup {[NoQuery EXCEPT !.page = Some(<<"2">>), !.sortOrder = Some("asc")]}

NextPage ==
    \/ createTodo("u1", [NoBody EXCEPT !.title = Some(<<"a">>)], MaxPageTodos)
    \/ toggleTodo("u1", 1)
    \/ \E q \in PageQueries : getTodos("u1", q)

SpecPage == Init /\ [][NextPage]_vars

\* ------------------------------------------------- the fields of an update
FieldCreateBodies ==
    {[NoBody EXCEPT !.title = Some(<<"a">>), !.description = Some(<<"d">>),
                    !.status = Some("in-progress"), !.priority = Some("high"),
                    !.dueDate = Some("2024-01-15T00:00:00.000Z")]}

FullUpdate ==
    [NoBody EXCEPT !.title = Some(<<"b">>), !.description = Some(<<"e">>),
                   !.status = Some("completed"), !.priority = Some("low"),
                   !.dueDate = Some("2024-02-01T00:00:00.000Z"),
                   !.isCompleted = Some("true")]

FieldNames == {Fields[i] : i \in DOMAIN Fields}

\* one field, all fields but one, none, all
FieldUpdateBodies ==
    {[f \in DOMAIN NoBody |-> IF f = g THEN FullUpdate[f] ELSE None] : g \in FieldNames}
    \cup {[FullUpdate EXCEPT ![g] = None] : g \in FieldNames}
    \cup {NoBody, FullUpdate}

NextFields ==
    \/ \E b \in FieldCreateBodies : createTodo("u1", b, MaxFieldTodos)
    \/ \E id \in 1..MaxFieldTodos, b \in FieldUpdateBodies : updateTodo("u1", id, b)
    \/ \E id \in 1..MaxFieldTodos : getTodoById("u1", id)

SpecFields == Init /\ [][NextFields]_vars

\* ------------------------------------------------------------ validation
InvalidFields ==
    {[NoBody EXCEPT !.description = Some(Rep("y", DescriptionMax + 1))],
     [NoBody EXCEPT !.status = Some("done")],
     [NoBody EXCEPT !.priority = Some("urgent")],
     [NoBody EXCEPT !.dueDate = Some("tomorrow")],
     [NoBody EXCEPT !.isCompleted = Some("yes")],
     [NoBody EXCEPT !.status = Some("done"), !.priority = Some("urgent"),
                    !.isCompleted = Some("yes")]}

InvalidTitles ==
    {[NoBody EXCEPT !.title = Some(<<>>)],
     [NoBody EXCEPT !.title = Some(<<" ", " ">>)],
     [NoBody EXCEPT !.title = Some(Rep("x", TitleMax + 1))],
     [NoBody EXCEPT !.title = Some(<<>>), !.dueDate = Some("tomorrow")]}

\* the longest title and description the chains accept
BoundaryBody ==
    [NoBody EXCEPT !.title = Some(<<" ">> \o Rep("x", TitleMax)),
                   !.description = Some(Rep("y", DescriptionMax))]

ValidateCreateBodies ==
    {ValidTitle, NoBody}
    \cup InvalidTitles
    \cup {[b EXCEPT !.title = Some(<<"a">>)] : b \in InvalidFields}

ValidateUpdateBodies ==
    {[NoBody EXCEPT !.title = Some(<<"b">>)],
     [NoBody EXCEPT !.isCompleted = Some("1")],
     NoBody}
    \cup InvalidTitles
    \cup InvalidFields

NextValidate ==
    \/ \E b \in ValidateCreateBodies : createTodo("u1", b, MaxFieldTodos)
    \/ createTodo("u1", BoundaryBody, 1)
    \/ \E u \in Users, id \in 0..MaxFieldTodos, b \in ValidateUpdateBodies :
          updateTodo(u, id, b)

SpecValidate == Init /\ [][NextValidate]_vars

\* ---------------------------------------------------- interleaved handlers
RaceUpdateBodies ==
    {[NoBody EXCEPT !.status = Some("in-progress")],
     [NoBody EXCEPT !.status = Some("completed"), !.isCompleted = Some("true")]}

Handlers == BagToSet(inflight)

NextRace ==
    \/ createTodo("u1", ValidTitle, MaxRaceTodos)
    \/ getTodos("u1", NoQuery)
    \/ \E u \in Users, id \in 1..MaxRaceTodos : getTodoById(u, id)
    \/ \E id \in 1..MaxRaceTodos, b \in RaceUpdateBodies :
          updateTodoFind("u1", id, b, MaxInFlight)
    \/ \E r \in Handlers : updateTodoWrite(r)
    \/ \E id \in 1..MaxRaceTodos : deleteTodoFind("u1", id, MaxInFlight)
    \/ \E r \in Handlers : deleteTodoWrite(r)
    \/ \E id \in 1..MaxRaceTodos : toggleTodoFind("u1", id, MaxInFlight)
    \/ \E r \in Handlers : toggleTodoSave(r)

SpecRace == Init /\ [][NextRace]_vars

\* ------------------------------------ the owner's writes to a todo, interleaved
\* a status alone leaves isCompleted as it is, so that a later toggle may
\* assign to status the value it already has
WriteUpdateBodies ==
    {[NoBody EXCEPT !.status = Some("in-progress")],
     [NoBody EXCEPT !.status = Some("completed")]}

NextWrites ==
    \/ createTodo("u1", ValidTitle, MaxRaceTodos)
    \/ \E id \in 1..MaxRaceTodos, b \in WriteUpdateBodies :
          updateTodoFind("u1", id, b, MaxInFlight)
    \/ \E r \in Handlers : updateTodoWrite(r)
    \/ \E id \in 1..MaxRaceTodos : toggleTodoFind("u1", id, MaxInFlight)
    \/ \E r \in Handlers : toggleTodoSave(r)

SpecWrites == Init /\ [][NextWrites]_vars

\* ============================================================ properties
ValidUpdateBodies == {b \in UpdateBodies : updateTodoValidation(b) = <<>>}

Kept(id) == id \in DOMAIN store' /\ store'[id] = store[id]

\* the answer C1 expects of a request of u on the stored todo id
OwnerOr403(u, id) == IF store[id].user = u THEN 200 ELSE 403

\* the step answers a request op of u on id
Asked(op, u, id) == last'.op = op /\ last'.user = u /\ last'.id = id

ItemRequestsAnswered(u, id, bodies) ==
    /\ (Asked("get", u, id) /\ getTodoById(u, id)) =>
          last'.code = OwnerOr403(u, id) /\ (store[id].user # u => Kept(id))
    /\ \A b \in bodies : (Asked("update", u, id) /\ updateTodo(u, id, b)) =>
          last'.code = OwnerOr403(u, id) /\ (store[id].user # u => Kept(id))
    /\ (Asked("delete", u, id) /\ deleteTodo(u, id)) =>
          last'.code = OwnerOr403(u, id) /\ (store[id].user # u => Kept(id))
    /\ (Asked("toggle", u, id) /\ toggleTodo(u, id)) =>
          last'.code = OwnerOr403(u, id) /\ (store[id].user # u => Kept(id))

\* C1 as claimed: every getTodoById, updateTodo, deleteTodo and toggleTodo
\* request of a user other than the owner of a stored todo is answered 403 and
\* leaves the todo as it is, and every such request of the owner is answered
\* 200, whatever the body of the updateTodo request
C1_AnyBody ==
    [][\A u \in Users, id \in DOMAIN store : ItemRequestsAnswered(u, id, UpdateBodies)]_vars

\* C1 as amended: the same, for updateTodo requests whose body passes the
\* validation (a body that fails it is answered 400 for the owner and for
\* any other user alike)
C1_Ownership ==
    [][\A u \in Users, id \in DOMAIN store :
          ItemRequestsAnswered(u, id, ValidUpdateBodies)]_vars

C1_Witness ==
    /\ last.op = "update" /\ last.code = 403
    /\ last.id \in DOMAIN store /\ store[last.id].user # last.user

\* the answer and the store after a request of u on the id, in the order
\* existence, ownership, effect
CheckedInOrder(u, id) ==
    /\ IF id \notin DOMAIN store THEN last'.code = 404
       ELSE IF store[id].user # u THEN last'.code = 403
       ELSE last'.code = 200
    /\ last'.code \in {403, 404} => UNCHANGED <<store, nextId>>

\* C2: getTodoById, updateTodo with a valid body, deleteTodo and toggleTodo
\* answer 404 for a malformed id and for an id with no stored todo, whoever
\* asks, 403 for a stored todo of another user, and 200 otherwise; the store
\* is not written on the 404 and 403 paths
C2_CheckOrder ==
    [][\A u \in Users, id \in RequestIds :
          /\ (Asked("get", u, id) /\ getTodoById(u, id)) => CheckedInOrder(u, id)
          /\ \A b \in ValidUpdateBodies :
                (Asked("update", u, id) /\ updateTodo(u, id, b)) => CheckedInOrder(u, id)
          /\ (Asked("delete", u, id) /\ deleteTodo(u, id)) => CheckedInOrder(u, id)
          /\ (Asked("toggle", u, id) /\ toggleTodo(u, id)) => CheckedInOrder(u, id)]_vars

C2_Witness ==
    /\ last.op = "toggle" /\ last.code = 404 /\ last.user = "u2"
    /\ last.id = 0
    /\ \E id \in DOMAIN store : store[id].user # last.user

\* C3: a toggleTodo of the owner that is answered 200 stores the negation of
\* isCompleted, status "completed" when that is true and "pending" when it is
\* false whatever the status was, and changes no other field of the todo and
\* no other todo
C3_Toggle ==
    [][\A u \in Users, id \in DOMAIN store :
          (store[id].user = u /\ Asked("toggle", u, id) /\ toggleTodo(u, id)) =>
             /\ last'.code = 200
             /\ DOMAIN store' = DOMAIN store
             /\ store'[id].isCompleted = ~store[id].isCompleted
             /\ store'[id].status =
                   (IF store'[id].isCompleted THEN "completed" ELSE "pending")
             /\ \A f \in {"_id", "title", "description", "priority", "dueDate", "user"} :
                   store'[id][f] = store[id][f]
             /\ \A o \in DOMAIN store \ {id} : store'[o] = store[o]]_vars

C3_Witness ==
    /\ last.op = "toggle" /\ last.code = 200
    /\ store[last.id].status = "pending" /\ ~store[last.id].isCompleted
    /\ toggled[last.id] = <<TRUE>>
    /\ \E o \in DOMAIN store : o # last.id /\ store[o].status = "in-progress"

\* C4: after two toggleTodo requests of the owner in a row on a todo, with no
\* other write of that todo between them, isCompleted is what it was before
\* the first, and status is "pending" when that is false and "completed" when
\* it is true
C4_ToggleTwice ==
    \A id \in DOMAIN store :
        Len(toggled[id]) = 2 =>
            /\ store[id].isCompleted = toggled[id][1]
            /\ store[id].status = (IF toggled[id][1] THEN "completed" ELSE "pending")

C4_Witness ==
    /\ last.op = "toggle" /\ last.code = 200
    /\ toggled[last.id] = <<FALSE, TRUE>>
    /\ store[last.id].status = "pending"

\* C9: the owner of a stored todo is a user, the one whose createTodo request
\* stored it, and no request changes it
C9_OwnerFixed ==
    [][\A id \in DOMAIN store' :
          /\ store'[id].user \in Users
          /\ IF id \in DOMAIN store THEN store'[id].user = store[id].user
             ELSE /\ last'.op = "create" /\ last'.code = 201 /\ last'.id = id
                  /\ store'[id].user = last'.user]_vars

C9_Witness ==
    /\ last.op = "update" /\ last.code = 200 /\ last.user = "u1"
    /\ store[last.id].status = "completed" /\ ~store[last.id].isCompleted
    /\ store[last.id].user = "u1"
\* C5: an updateTodo of the owner that is answered 200 leaves every one of
\* title, description, status, priority, dueDate and isCompleted that the
\* body does not hold as it is stored, and leaves the owner, the id and every
\* other todo as they are
C5_UpdateFrame ==
    [][\A id \in DOMAIN store, b \in FieldUpdateBodies :
          (Asked("update", "u1", id) /\ updateTodo("u1", id, b)) =>
             /\ last'.code = 200
             /\ DOMAIN store' = DOMAIN store
             /\ \A f \in FieldNames : ~Has(b[f]) => store'[id][f] = store[id][f]
             /\ store'[id].user = store[id].user /\ store'[id]._id = id
             /\ \A o \in DOMAIN store \ {id} : store'[o] = store[o]]_vars

C5_Witness ==
    /\ last.op = "update" /\ last.code = 200
    /\ store[last.id].priority = "low"
    /\ store[last.id].title = <<"a">>
    /\ store[last.id].description = Some(<<"d">>)
    /\ store[last.id].dueDate = Some("2024-01-15T00:00:00.000Z")
    /\ store[last.id].status = "in-progress"
    /\ ~store[last.id].isCompleted

\* a query parameter is given when it is there and not empty
Given(o) == Has(o) /\ Get(o) # ""

\* C6: every todo in the data of a getTodos response is a todo of the caller,
\* has the status of the query when the query gives one and the priority of
\* the query when the query gives one
C6_ListScoped ==
    last.op = "list" =>
        \A i \in 1..Len(last.data) :
            /\ last.data[i].user = last.user
            /\ Given(last.query.status) => last.data[i].status = Get(last.query.status)
            /\ Given(last.query.priority) =>
                  last.data[i].priority = Get(last.query.priority)

C6_Witness ==
    /\ last.op = "list" /\ last.query.status = Some("completed")
    /\ Len(last.data) = 1
    /\ \E id \in DOMAIN store :
          store[id].user # last.user /\ store[id].status = "completed"

Max(a, b) == IF a > b THEN a ELSE b

\* the least k with k * L >= N
Ceiling(N, L) == CHOOSE k \in 0..N : k * L >= N /\ (k = 0 \/ (k - 1) * L < N)

\* C7: with N todos of the caller matching the query, page p and limit L
\* (1 and 10 when the query has none), the data of the response are the todos
\* at the places (p-1)*L+1 .. min(p*L, N) of the sorted matches, which are
\* min(L, max(0, N-(p-1)*L)) todos, and the pagination is p, ceil(N/L), N, L;
\* with N = 25 and L = 10 that is 10 todos on page 1, 3 pages, 5 todos on page 3
C7_Pagination ==
    last.op = "list" =>
        LET q == last.query
            p == IF Has(q.page) THEN ParseInt(Get(q.page)) ELSE 1
            L == IF Has(q.limit) THEN ParseInt(Get(q.limit)) ELSE 10
            sorted == SortedMatches(last.user, q)
            N == Len(sorted)
        IN  /\ N = Cardinality({id \in DOMAIN store :
                     /\ store[id].user = last.user
                     /\ Given(q.status) => store[id].status = Get(q.status)
                     /\ Given(q.priority) => store[id].priority = Get(q.priority)})
            /\ Len(last.data) = Min(L, Max(0, N - (p - 1) * L))
            /\ \A i \in 1..Len(last.data) :
                  last.data[i] = store[sorted[(p - 1) * L + i]]
            /\ last.pagination =
                  Some([currentPage |-> p, totalPages |-> Ceiling(N, L),
                        totalItems |-> N, itemsPerPage |-> L])
            /\ (N = 25 /\ L = 10) =>
                  /\ Get(last.pagination).totalPages = 3
                  /\ p = 1 => Len(last.data) = 10
                  /\ p = 3 => Len(last.data) = 5

C7_Witness ==
    /\ last.op = "list" /\ Has(last.pagination)
    /\ Get(last.pagination).totalItems = 25
    /\ Get(last.pagination).itemsPerPage = 10
    /\ Get(last.pagination).currentPage = 3
    /\ Get(last.pagination).totalPages = 3
    /\ Len(last.data) = 5

\* the id was given to a todo that is no longer stored
Deleted(id) == id < nextId /\ id \notin DOMAIN store

NotFound(op, id) == last'.op = op /\ last'.id = id /\ last'.code = 404

\* C8: a deleted todo stays out of the store, whatever write of a handler that
\* read it before the deletion comes after it; every handler that reads the
\* store after the deletion answers 404 for its id, and getTodos does not
\* list it
C8_DeletionPermanent ==
    [][\A id \in 1..MaxRaceTodos :
          Deleted(id) =>
             /\ id \notin DOMAIN store'
             /\ \A u \in Users :
                   (Asked("get", u, id) /\ getTodoById(u, id)) => last'.code = 404
             /\ \A b \in RaceUpdateBodies :
                   updateTodoFind("u1", id, b, MaxInFlight) =>
                      NotFound("update", id) /\ inflight' = inflight
             /\ deleteTodoFind("u1", id, MaxInFlight) =>
                   NotFound("delete", id) /\ inflight' = inflight
             /\ toggleTodoFind("u1", id, MaxInFlight) =>
                   NotFound("toggle", id) /\ inflight' = inflight
             /\ getTodos("u1", NoQuery) =>
                   \A i \in 1..Len(last'.data) : last'.data[i]._id # id]_vars

C8_Witness ==
    /\ last.op = "update" /\ last.code = 200 /\ last.data = <<>>
    /\ Deleted(last.id)

\* the fields of the body that break their rule; the length of a text is
\* the length of the text without the blanks around it
Broken(b, titleRequired) ==
    {f \in FieldNames :
        CASE f = "title" ->
                IF Has(b.title)
                THEN Len(Trim(Get(b.title))) < 1 \/ Len(Trim(Get(b.title))) > 100
                ELSE titleRequired
          [] f = "description" ->
                Has(b.description) /\ Len(Trim(Get(b.description))) > 500
          [] f = "status" ->
                Has(b.status)
                /\ Get(b.status) \notin {"pending", "in-progress", "completed"}
          [] f = "priority" ->
                Has(b.priority) /\ Get(b.priority) \notin {"low", "medium", "high"}
          [] f = "dueDate" -> Has(b.dueDate) /\ ~IsISO8601(Get(b.dueDate))
          [] f = "isCompleted" ->
                Has(b.isCompleted) /\ Get(b.isCompleted) \notin {"true", "false", "1", "0"}}

Refused(broken) ==
    /\ last'.code = 400
    /\ {last'.errors[i] : i \in 1..Len(last'.errors)} = broken
    /\ Len(last'.errors) = Cardinality(broken)
    /\ UNCHANGED <<store, nextId, inflight>>

\* C10: a createTodo or updateTodo request with a body that breaks a field
\* rule is answered 400 with every broken field listed, and the store is as
\* it was; for updateTodo also when the id is malformed, names no todo or
\* names a todo of another user
C10_ValidationFirst ==
    [][/\ \A u \in Users, b \in ValidateCreateBodies :
             (last'.op = "create" /\ last'.user = u /\ Broken(b, TRUE) # {}
              /\ createTodo(u, b, MaxFieldTodos)) => Refused(Broken(b, TRUE))
       /\ \A u \in Users, id \in 0..MaxFieldTodos, b \in ValidateUpdateBodies :
             (Asked("update", u, id) /\ Broken(b, FALSE) # {} /\ updateTodo(u, id, b))
                => Refused(Broken(b, FALSE))]_vars

C10_Witness ==
    /\ last.op = "update" /\ last.code = 400
    /\ last.errors = <<"status", "priority", "isCompleted">>
    /\ last.id \in DOMAIN store /\ store[last.id].user # last.user

\* the fields an update with body b writes, and the value it writes to f
UpdateWrites(b) == {f \in FieldNames : Has(b[f])}

UpdateValue(b, f) ==
    CASE f \in {"description", "dueDate"} -> b[f]
      [] f = "isCompleted" -> Get(b[f]) \in {"true", "1"}
      [] OTHER -> Get(b[f])

\* the value a toggle that read the todo as loaded assigns to f, and the
\* fields its save writes: the assigned ones whose value it changed
ToggleValue(loaded, f) ==
    CASE f = "isCompleted" -> ~loaded.isCompleted
      [] f = "status" -> IF loaded.isCompleted THEN "pending" ELSE "completed"

ToggleWrites(loaded) ==
    {f \in {"isCompleted", "status"} : ToggleValue(loaded, f) # loaded[f]}

C12_UpdateReturnsRecord ==
    (last.op = "update" /\ last.code = 200) =>
        /\ Len(last.data) = 1
        /\ last.data[1]._id = last.id

====
